---- MODULE Spec2Model ----
(***************************************************************************)
(* Model of the Zomato OTP-request service (api/send-otp):                 *)
(*   - exports.handler        : the HTTP handler                           *)
(*   - ZomotoStandalone.sendOTP: the linear browser flow                   *)
(*   - _withTimeout           : promise race against a timer               *)
(*   - _waitForSelectorWithRetry : selector wait with exponential backoff  *)
(*   - sessionCache           : module-level Map sessionId -> handles      *)
(* Each request is one call c; Node runs the calls interleaved at their    *)
(* awaits.  A continuation that follows a settled promise without I/O is a *)
(* microtask and runs before any timer or I/O callback.                    *)
(***************************************************************************)
EXTENDS Integers, Sequences, FiniteSets, TLC

\* ---------------------------------------------------------------- bounds
NCalls == 2
MaxRetries == 3

Calls == 1..NCalls

\* ------------------------------------------------------------- variables
VARIABLES
  event,         \* per call: the request (httpMethod, body) once it has arrived
  pc,            \* per call: position in handler / sendOTP
  otpType,       \* per call: the request's type ('phone' | 'email')
  browser,       \* per call: sendOTP's local `browser` has been assigned
  proc,          \* per call: the browser process: none/open/closed/disconnected
  launchOp,      \* per call: the launchBrowser() promise
  attempt,       \* per call: loop variable of _waitForSelectorWithRetry
  err,           \* per call: message of the error caught in sendOTP / handler
  sessionId,     \* per call: sendOTP's local sessionId (0 = not generated)
  sessionCache,  \* the Map: a function from sessionIds to the owning call
  cleanupTimer,  \* per call: the 5-minute timer: none/armed/fired
  resp,          \* per call: the handler's answer
  log,           \* per call: flow steps completed so far (history)
  pageTitle,     \* per call: sendOTP's local pageTitle (<<>> = not read yet)
  uuidCount,     \* number of identifiers uuidv4 has generated
  wt,            \* harness state of one _withTimeout race
  rt             \* harness state of one _waitForSelectorWithRetry run

vars == <<event, pc, otpType, browser, proc, launchOp, attempt, err, sessionId,
          sessionCache, cleanupTimer, resp, log, pageTitle, pageTitle, uuidCount, event, wt, rt>>

flowVars == <<event, pc, otpType, browser, proc, launchOp, attempt, err, sessionId,
              sessionCache, cleanupTimer, resp, log, pageTitle, uuidCount>>

\* --------------------------------------------------------------- strings
\* Error messages are sequences of text fragments; String.includes is
\* membership of a fragment.
Includes(message, fragment) == \E i \in 1..Len(message) : message[i] = fragment

\* `${operationName} timed out after ${timeoutMs}ms`
TimeoutMessage(operationName, timeoutMs) ==
  <<operationName, "timed out after", ToString(timeoutMs), "ms">>

\* puppeteer's TimeoutError of waitForSelector
SelectorTimeoutMessage(timeoutMs) ==
  <<"Waiting for selector failed:", ToString(timeoutMs), "ms exceeded">>

\* any other rejection of a puppeteer operation (protocol error, net::ERR_*,
\* target closed, missing executable, TypeError on a null handle)
OperationErrorMessage == <<"Protocol error">>

AccessDeniedMessage ==
  <<"Zomato", "detected automated browser",
    "and blocked access. This may be due to bot detection. Please check browser stealth settings.">>

LoginButtonMessage(original) ==
  <<"Failed to find Login button after navigation.", "Original error:">> \o original

IframeMessage == <<"Could not find the login iframe.">>

BoundingBoxMessage == <<"Could not get bounding box for \"Continue with Email\" button.">>

SyntaxErrorMessage == <<"Unexpected token in JSON">>

NoError == <<>>

\* Page titles are sequences of characters.
UpperCase == <<"A","B","C","D","E","F","G","H","I","J","K","L","M",
               "N","O","P","Q","R","S","T","U","V","W","X","Y","Z">>
LowerCase == <<"a","b","c","d","e","f","g","h","i","j","k","l","m",
               "n","o","p","q","r","s","t","u","v","w","x","y","z">>

toLowerCaseChar(ch) ==
  IF \E i \in 1..26 : UpperCase[i] = ch
  THEN LowerCase[CHOOSE i \in 1..26 : UpperCase[i] = ch]
  ELSE ch

toLowerCase(s) == [i \in 1..Len(s) |-> toLowerCaseChar(s[i])]

\* String.prototype.includes on character sequences
includes(s, needle) ==
  \E k \in 0..(Len(s) - Len(needle)) :
    \A i \in 1..Len(needle) : s[k + i] = needle[i]

TitleAccessDenied == <<"A","c","c","e","s","s"," ","D","e","n","i","e","d">>
TitleUpper == <<"A","C","C","E","S","S"," ","D","E","N","I","E","D">>
TitleEmbedded == <<"4","0","3"," ","a","c","c","e","s","s"," ","d","e","n","i","e","d","!">>
TitleLogin == <<"L","o","g","i","n">>
TitleUnknown == <<"U","n","k","n","o","w","n">>
NeedleAccessDenied == <<"a","c","c","e","s","s"," ","d","e","n","i","e","d">>

\* titles the site may answer with
Titles == {TitleAccessDenied, TitleUpper, TitleEmbedded, TitleLogin}

\* variant: only the exact title 'Access Denied' is recognised
isBlockPageExact(title) == title = TitleAccessDenied

\* the condition of the block-page check
isBlockPage(title) ==
  title = TitleAccessDenied \/ includes(toLowerCase(title), NeedleAccessDenied)

\* ----------------------------------------------------------------- flow
FlowOrder == <<"navigate", "blockCheck", "clickLogin", "switchIframe",
               "typeIdentifier", "clickSendOtp", "cache">>

\* no request has arrived
NoEvent == [httpMethod |-> "", body |-> [json |-> FALSE, identifier |-> "", type |-> "none"]]

NoResp == [statusCode |-> 0, success |-> FALSE, message |-> "", error |-> NoError, sessionId |-> 0]

FlowInit ==
  /\ event = [c \in Calls |-> NoEvent]
  /\ pc = [c \in Calls |-> "idle"]
  /\ otpType = [c \in Calls |-> "phone"]
  /\ browser = [c \in Calls |-> FALSE]
  /\ proc = [c \in Calls |-> "none"]
  /\ launchOp = [c \in Calls |-> "idle"]
  /\ attempt = [c \in Calls |-> 0]
  /\ err = [c \in Calls |-> NoError]
  /\ sessionId = [c \in Calls |-> 0]
  /\ sessionCache = <<>>
  /\ cleanupTimer = [c \in Calls |-> "none"]
  /\ resp = [c \in Calls |-> NoResp]
  /\ log = [c \in Calls |-> <<>>]
  /\ pageTitle = [c \in Calls |-> <<>>]
  /\ uuidCount = 0

Init == FlowInit /\ wt = [phase |-> "off"] /\ rt = [phase |-> "off"]

\* a continuation of a settled async function is waiting in the microtask queue
MicrotaskPending == \E c \in Calls : pc[c] \in {"returned", "thrown"}

\* timers and I/O callbacks run only when the microtask queue is empty
MacrotaskTurn == ~MicrotaskPending

isConnected(c) == proc[c] = "open"

Goto(c, p) == pc' = [pc EXCEPT ![c] = p]

Logged(c, step) == log' = [log EXCEPT ![c] = Append(@, step)]

\* an error thrown inside sendOTP's try block: the catch block closes the
\* browser when the local is assigned and connected, then rethrows
Throw(c, e) ==
  /\ err' = [err EXCEPT ![c] = e]
  /\ Goto(c, IF browser[c] /\ isConnected(c) THEN "closing" ELSE "thrown")

\* ------------------------------------------------------------- handler
Methods == {"OPTIONS", "GET", "POST"}

\* event.body: unparsable text, or a JSON object with optional fields
Bodies ==
  {[json |-> FALSE, identifier |-> "", type |-> "none"]} \cup
  [json : {TRUE}, identifier : {"", "9014884219"}, type : {"none", "phone", "email"}]

Answer(status, ok, msg, e, sid) ==
  [statusCode |-> status, success |-> ok, message |-> msg, error |-> e, sessionId |-> sid]

\* variant: the catch block looks for the page title, not the error text
errorStatusByTitle(message) == IF Includes(message, "Access Denied") THEN 403 ELSE 500

\* the status code chosen by the handler's catch block
errorStatus(message) == IF Includes(message, "detected automated browser") THEN 403 ELSE 500

\* variant: the handler does not check that an identifier was given
HandlerNoIdentifierCheck(c) ==
  /\ MacrotaskTurn
  /\ pc[c] = "idle"
  /\ \E httpMethod \in Methods, body \in Bodies :
       /\ event' = [event EXCEPT ![c] = [httpMethod |-> httpMethod, body |-> body]]
       /\ IF httpMethod = "OPTIONS" THEN
            /\ resp' = [resp EXCEPT ![c] = Answer(200, FALSE, "", NoError, 0)]
            /\ Goto(c, "responded")
            /\ UNCHANGED <<otpType, launchOp>>
          ELSE IF httpMethod # "POST" THEN
            /\ resp' = [resp EXCEPT ![c] =
                          Answer(405, FALSE, "", <<"Method not allowed. Use POST.">>, 0)]
            /\ Goto(c, "responded")
            /\ UNCHANGED <<otpType, launchOp>>
          ELSE IF ~body.json THEN
            /\ resp' = [resp EXCEPT ![c] =
                          Answer(errorStatus(SyntaxErrorMessage), FALSE, "", SyntaxErrorMessage, 0)]
            /\ Goto(c, "responded")
            /\ UNCHANGED <<otpType, launchOp>>
          ELSE
            /\ otpType' = [otpType EXCEPT ![c] = IF body.type = "none" THEN "phone" ELSE body.type]
            /\ launchOp' = [launchOp EXCEPT ![c] = "pending"]
            /\ Goto(c, "launch")
            /\ UNCHANGED resp
  /\ UNCHANGED <<browser, proc, attempt, err, sessionId, sessionCache,
                 cleanupTimer, log, pageTitle, uuidCount, wt, rt>>

\* exports.handler up to its first await: the checks before the flow, then
\* sendOTP up to the launch race
Handler(c) ==
  /\ MacrotaskTurn
  /\ pc[c] = "idle"
  /\ \E httpMethod \in Methods, body \in Bodies :
       /\ event' = [event EXCEPT ![c] = [httpMethod |-> httpMethod, body |-> body]]
       /\ IF httpMethod = "OPTIONS" THEN
            /\ resp' = [resp EXCEPT ![c] = Answer(200, FALSE, "", NoError, 0)]
            /\ Goto(c, "responded")
            /\ UNCHANGED <<otpType, launchOp>>
          ELSE IF httpMethod # "POST" THEN
            /\ resp' = [resp EXCEPT ![c] =
                          Answer(405, FALSE, "", <<"Method not allowed. Use POST.">>, 0)]
            /\ Goto(c, "responded")
            /\ UNCHANGED <<otpType, launchOp>>
          ELSE IF ~body.json THEN
            /\ resp' = [resp EXCEPT ![c] =
                          Answer(errorStatus(SyntaxErrorMessage), FALSE, "", SyntaxErrorMessage, 0)]
            /\ Goto(c, "responded")
            /\ UNCHANGED <<otpType, launchOp>>
          ELSE IF body.identifier = "" THEN
            /\ resp' = [resp EXCEPT ![c] =
                          Answer(400, FALSE, "", <<"identifier is required">>, 0)]
            /\ Goto(c, "responded")
            /\ UNCHANGED <<otpType, launchOp>>
          ELSE
            /\ otpType' = [otpType EXCEPT ![c] = IF body.type = "none" THEN "phone" ELSE body.type]
            /\ launchOp' = [launchOp EXCEPT ![c] = "pending"]
            /\ Goto(c, "launch")
            /\ UNCHANGED resp
  /\ UNCHANGED <<browser, proc, attempt, err, sessionId, sessionCache,
                 cleanupTimer, log, pageTitle, uuidCount, wt, rt>>

\* the handler's continuation after sendOTP resolved
HandlerReturn(c) ==
  /\ pc[c] = "returned"
  /\ resp' = [resp EXCEPT ![c] =
                Answer(200, TRUE, "OTP sent successfully", NoError, sessionId[c])]
  /\ Goto(c, "responded")
  /\ UNCHANGED <<otpType, browser, proc, launchOp, attempt, err, sessionId,
                 sessionCache, cleanupTimer, log, pageTitle, uuidCount, event, wt, rt>>

\* the handler's catch block after sendOTP rejected
HandlerCatch(c) ==
  /\ pc[c] = "thrown"
  /\ resp' = [resp EXCEPT ![c] = Answer(errorStatus(err[c]), FALSE, "", err[c], 0)]
  /\ Goto(c, "responded")
  /\ UNCHANGED <<otpType, browser, proc, launchOp, attempt, err, sessionId,
                 sessionCache, cleanupTimer, log, pageTitle, uuidCount, event, wt, rt>>

\* ------------------------------------------------- sendOTP: wrapped steps
\* the steps sendOTP runs under _withTimeout, with their limits and names
TimeoutMs == [launch |-> 30000, newPage |-> 10000, setUA |-> 5000, goto |-> 60000]
OperationName == [launch |-> "Browser launch", newPage |-> "Page creation",
                  setUA |-> "User agent setup", goto |-> "Page navigation"]

\* variant: the last settlement decides
raceSettleLast(result, outcome) == outcome

\* Promise.race: the first settlement decides; a later one is ignored
raceSettle(result, outcome) == IF result.state = "pending" THEN outcome ELSE result

\* puppeteer.launch resolves: within the race it assigns `browser` and calls
\* browser.newPage(); after the race was lost the browser just starts
LaunchDone(c) ==
  /\ MacrotaskTurn
  /\ launchOp[c] = "pending"
  /\ launchOp' = [launchOp EXCEPT ![c] = "resolved"]
  /\ proc' = [proc EXCEPT ![c] = "open"]
  /\ IF pc[c] = "launch"
     THEN /\ browser' = [browser EXCEPT ![c] = TRUE]
          /\ Goto(c, "newPage")
     ELSE UNCHANGED <<browser, pc>>
  /\ UNCHANGED <<otpType, attempt, err, sessionId, sessionCache, cleanupTimer,
                 resp, log, pageTitle, uuidCount, event, wt, rt>>

\* puppeteer.launch (or _getBrowserLaunchOptions) rejects
LaunchFail(c) ==
  /\ MacrotaskTurn
  /\ launchOp[c] = "pending"
  /\ launchOp' = [launchOp EXCEPT ![c] = "rejected"]
  /\ IF pc[c] = "launch"
     THEN Throw(c, OperationErrorMessage)
     ELSE UNCHANGED <<err, pc>>
  /\ UNCHANGED <<otpType, browser, proc, attempt, sessionId, sessionCache,
                 cleanupTimer, resp, log, pageTitle, uuidCount, event, wt, rt>>

\* the timer of a _withTimeout race fires while the race is undecided
WithTimeoutFire(c) ==
  /\ MacrotaskTurn
  /\ pc[c] \in DOMAIN TimeoutMs
  /\ Throw(c, TimeoutMessage(OperationName[pc[c]], TimeoutMs[pc[c]]))
  /\ UNCHANGED <<otpType, browser, proc, launchOp, attempt, sessionId, sessionCache,
                 cleanupTimer, resp, log, pageTitle, uuidCount, event, wt, rt>>

\* the wrapped operation rejects first
WithTimeoutReject(c) ==
  /\ MacrotaskTurn
  /\ pc[c] \in {"newPage", "setUA", "goto"}
  /\ Throw(c, OperationErrorMessage)
  /\ UNCHANGED <<otpType, browser, proc, launchOp, attempt, sessionId, sessionCache,
                 cleanupTimer, resp, log, pageTitle, uuidCount, event, wt, rt>>

\* browser.newPage() resolves; _makePageStealth starts
NewPageDone(c) ==
  /\ MacrotaskTurn
  /\ pc[c] = "newPage"
  /\ isConnected(c)
  /\ Goto(c, "stealth")
  /\ UNCHANGED <<otpType, browser, proc, launchOp, attempt, err, sessionId,
                 sessionCache, cleanupTimer, resp, log, pageTitle, uuidCount, event, wt, rt>>

\* _makePageStealth settles: it swallows its own errors, so success and
\* failure both continue with page.setUserAgent
StealthDone(c) ==
  /\ MacrotaskTurn
  /\ pc[c] = "stealth"
  /\ Goto(c, "setUA")
  /\ UNCHANGED <<otpType, browser, proc, launchOp, attempt, err, sessionId,
                 sessionCache, cleanupTimer, resp, log, pageTitle, uuidCount, event, wt, rt>>

\* page.setUserAgent resolves; page.goto starts
SetUserAgentDone(c) ==
  /\ MacrotaskTurn
  /\ pc[c] = "setUA"
  /\ isConnected(c)
  /\ Goto(c, "goto")
  /\ UNCHANGED <<otpType, browser, proc, launchOp, attempt, err, sessionId,
                 sessionCache, cleanupTimer, resp, log, pageTitle, uuidCount, event, wt, rt>>

\* page.goto resolves; the 2000 ms settle pause starts
NavigationDone(c) ==
  /\ MacrotaskTurn
  /\ pc[c] = "goto"
  /\ isConnected(c)
  /\ Goto(c, "settle")
  /\ Logged(c, "navigate")
  /\ UNCHANGED <<otpType, browser, proc, launchOp, attempt, err, sessionId,
                 sessionCache, cleanupTimer, resp, pageTitle, uuidCount, event, wt, rt>>

\* --------------------------------------- _waitForSelectorWithRetry (pure)
\* variant: every attempt gets the full timeout
attemptTimeoutFull(timeout, retries, k) == timeout

\* timeout handed to pageOrFrame.waitForSelector in the given attempt
attemptTimeout(timeout, retries, k) ==
  IF k = 0 THEN timeout ELSE timeout \div (retries + 1)

\* variant: linear instead of exponential backoff
backoffDelayLinear(retryDelay, k) == retryDelay * (k + 1)

\* pause after failed attempt k: retryDelay * Math.pow(2, attempt)
backoffDelay(retryDelay, k) == retryDelay * 2^k

\* the loop sleeps after a failed attempt unless it was the last one
retriesLeft(k, retries) == k < retries

\* options of the Login button wait
LoginWait == [timeout |-> 60000, retries |-> 2, retryDelay |-> 2000]

\* ------------------------------------------------ sendOTP: the page flow
\* the 2000 ms pause after navigation ends; page.url() and page.title() run
SettleDone(c) ==
  /\ MacrotaskTurn
  /\ pc[c] = "settle"
  /\ Goto(c, "title")
  /\ UNCHANGED <<otpType, browser, proc, launchOp, attempt, err, sessionId,
                 sessionCache, cleanupTimer, resp, log, pageTitle, uuidCount, event, wt, rt>>

\* page.title() settles (a rejection is replaced by 'Unknown'); the block-page
\* check runs and, when it passes, the Login button wait starts
TitleRead(c) ==
  /\ MacrotaskTurn
  /\ pc[c] = "title"
  /\ \E title \in (IF isConnected(c) THEN Titles ELSE {}) \cup {TitleUnknown} :
       /\ pageTitle' = [pageTitle EXCEPT ![c] = title]
       /\ IF isBlockPage(title)
          THEN /\ Throw(c, AccessDeniedMessage)
               /\ UNCHANGED <<attempt, log>>
          ELSE /\ Goto(c, "loginWait")
               /\ attempt' = [attempt EXCEPT ![c] = 0]
               /\ Logged(c, "blockCheck")
               /\ UNCHANGED err
  /\ UNCHANGED <<otpType, browser, proc, launchOp, sessionId, sessionCache,
                 cleanupTimer, resp, uuidCount, event, wt, rt>>

\* an attempt of the Login button wait finds the button: the helper returns
\* (its loop variable is gone) and loginButton.click() starts
LoginWaitFound(c) ==
  /\ MacrotaskTurn
  /\ pc[c] = "loginWait"
  /\ isConnected(c)
  /\ Goto(c, "clickLogin")
  /\ attempt' = [attempt EXCEPT ![c] = 0]
  /\ UNCHANGED <<otpType, browser, proc, launchOp, err, sessionId,
                 sessionCache, cleanupTimer, resp, log, pageTitle, uuidCount, event, wt, rt>>

\* an attempt of the Login button wait fails: sleep backoffDelay ms before the
\* next attempt, or give up after the last attempt with the wrapped error
LoginWaitFailed(c) ==
  /\ MacrotaskTurn
  /\ pc[c] = "loginWait"
  /\ \E lastError \in {SelectorTimeoutMessage(
                         attemptTimeout(LoginWait.timeout, LoginWait.retries, attempt[c])),
                       OperationErrorMessage} :
       IF retriesLeft(attempt[c], LoginWait.retries)
       THEN /\ Goto(c, "loginBackoff")
            /\ UNCHANGED <<err, attempt>>
       ELSE /\ Throw(c, LoginButtonMessage(lastError))
            /\ attempt' = [attempt EXCEPT ![c] = 0]
  /\ UNCHANGED <<otpType, browser, proc, launchOp, sessionId, sessionCache,
                 cleanupTimer, resp, log, pageTitle, uuidCount, event, wt, rt>>

\* the backoff pause ends; the next attempt starts
LoginBackoffDone(c) ==
  /\ MacrotaskTurn
  /\ pc[c] = "loginBackoff"
  /\ attempt' = [attempt EXCEPT ![c] = @ + 1]
  /\ Goto(c, "loginWait")
  /\ UNCHANGED <<otpType, browser, proc, launchOp, err, sessionId, sessionCache,
                 cleanupTimer, resp, log, pageTitle, uuidCount, event, wt, rt>>

\* variant: the identifier is typed without switching to the iframe
StepNextSkipsIframe(c) ==
  [clickLogin |-> "input",
   iframe     |-> "frameLogin",
   frameLogin |-> IF otpType[c] = "email" THEN "emailClick" ELSE "input",
   emailClick |-> "emailPause",
   emailPause |-> "input",
   input      |-> "sendOtp"]

\* the steps between the Login click and the Send-OTP click: where each
\* leads when it succeeds, and what it records
StepNext(c) ==
  [clickLogin |-> "iframe",
   iframe     |-> "frameLogin",
   frameLogin |-> IF otpType[c] = "email" THEN "emailClick" ELSE "input",
   emailClick |-> "emailPause",
   emailPause |-> "input",
   input      |-> "sendOtp"]

StepLog ==
  [clickLogin |-> <<"clickLogin">>,
   iframe     |-> <<"switchIframe">>,
   frameLogin |-> <<>>,
   emailClick |-> <<>>,
   emailPause |-> <<>>,
   input      |-> <<"typeIdentifier">>]

\* variant: the input step throws an error of its own
StepErrorsOwnInputError ==
  [clickLogin |-> {OperationErrorMessage},
   iframe     |-> {SelectorTimeoutMessage(15000), OperationErrorMessage, IframeMessage},
   frameLogin |-> {SelectorTimeoutMessage(10000), SelectorTimeoutMessage(15000),
                   OperationErrorMessage},
   emailClick |-> {BoundingBoxMessage, OperationErrorMessage},
   emailPause |-> {},
   input      |-> {SelectorTimeoutMessage(10000), OperationErrorMessage,
                   <<"Could not find the identifier input.">>},
   sendOtp    |-> {SelectorTimeoutMessage(30000), OperationErrorMessage}]

\* the errors each step can throw
StepErrors ==
  [clickLogin |-> {OperationErrorMessage},
   iframe     |-> {SelectorTimeoutMessage(15000), OperationErrorMessage, IframeMessage},
   frameLogin |-> {SelectorTimeoutMessage(10000), SelectorTimeoutMessage(15000),
                   OperationErrorMessage},
   emailClick |-> {BoundingBoxMessage, OperationErrorMessage},
   emailPause |-> {},
   input      |-> {SelectorTimeoutMessage(10000), OperationErrorMessage},
   sendOtp    |-> {SelectorTimeoutMessage(30000), OperationErrorMessage}]

\* variant: the session is cached once the identifier is typed, before the
\* Send-OTP button is waited for and clicked
StepDoneCachesEarly(c) ==
  /\ MacrotaskTurn
  /\ pc[c] \in DOMAIN StepLog
  /\ pc[c] # "emailPause" => isConnected(c)
  /\ Goto(c, StepNext(c)[pc[c]])
  /\ log' = [log EXCEPT ![c] = @ \o StepLog[pc[c]]]
  /\ IF pc[c] = "input"
     THEN /\ sessionId' = [sessionId EXCEPT ![c] = uuidCount + 1]
          /\ uuidCount' = uuidCount + 1
          /\ sessionCache' =
               [k \in DOMAIN sessionCache \cup {uuidCount + 1} |->
                  IF k = uuidCount + 1 THEN [browser |-> c, page |-> c, frame |-> c]
                  ELSE sessionCache[k]]
          /\ cleanupTimer' = [cleanupTimer EXCEPT ![c] = "armed"]
     ELSE UNCHANGED <<sessionId, uuidCount, sessionCache, cleanupTimer>>
  /\ UNCHANGED <<otpType, browser, proc, launchOp, attempt, err, resp, pageTitle, event, wt, rt>>

\* the awaited operations of a step resolve (the 1500 ms pause ends) and the
\* next step starts; a page operation resolves only on a connected browser
StepDone(c) ==
  /\ MacrotaskTurn
  /\ pc[c] \in DOMAIN StepLog
  /\ pc[c] # "emailPause" => isConnected(c)
  /\ Goto(c, StepNext(c)[pc[c]])
  /\ log' = [log EXCEPT ![c] = @ \o StepLog[pc[c]]]
  /\ UNCHANGED <<otpType, browser, proc, launchOp, attempt, err, sessionId,
                 sessionCache, cleanupTimer, resp, pageTitle, uuidCount, event, wt, rt>>

\* an awaited operation of a step rejects, or the step throws
StepFail(c) ==
  /\ MacrotaskTurn
  /\ pc[c] \in DOMAIN StepErrors
  /\ \E e \in StepErrors[pc[c]] : Throw(c, e)
  /\ UNCHANGED <<otpType, browser, proc, launchOp, attempt, sessionId, sessionCache,
                 cleanupTimer, resp, log, pageTitle, uuidCount, event, wt, rt>>

\* ------------------------------------------------- sendOTP: session cache
\* variant: the generator repeats itself
uuidv4Repeats == IF uuidCount = 0 THEN 1 ELSE uuidCount

\* uuidv4(): an identifier that was never generated before
uuidv4 == uuidCount + 1

\* sessionCache.set(sessionId, sessionData)
cacheSet(cache, sid, c) ==
  [k \in DOMAIN cache \cup {sid} |->
     IF k = sid THEN [browser |-> c, page |-> c, frame |-> c] ELSE cache[k]]

\* variant: the cleanup empties the whole Map
cacheDeleteAll(cache, sid) == [k \in {} |-> cache[k]]

\* sessionCache.delete(sessionId)
cacheDelete(cache, sid) == [k \in DOMAIN cache \ {sid} |-> cache[k]]

\* the Send-OTP click resolves; the rest of sendOTP runs without awaiting:
\* generate the id, cache the session, start the cleanup timer, return
SendOtpDone(c) ==
  /\ MacrotaskTurn
  /\ pc[c] = "sendOtp"
  /\ isConnected(c)
  /\ sessionId' = [sessionId EXCEPT ![c] = uuidv4]
  /\ uuidCount' = uuidCount + 1
  /\ sessionCache' = cacheSet(sessionCache, uuidv4, c)
  /\ cleanupTimer' = [cleanupTimer EXCEPT ![c] = "armed"]
  /\ log' = [log EXCEPT ![c] = @ \o <<"clickSendOtp", "cache">>]
  /\ Goto(c, "returned")
  /\ UNCHANGED <<otpType, browser, proc, launchOp, attempt, err, resp, pageTitle, event, wt, rt>>

\* the body of the cleanup callback: close and forget the session only when
\* the browser is still connected
cleanupCloses(c) == browser[c] /\ isConnected(c)

\* the 5-minute cleanup timer fires
CleanupFire(c) ==
  /\ MacrotaskTurn
  /\ cleanupTimer[c] = "armed"
  /\ cleanupTimer' = [cleanupTimer EXCEPT ![c] = "fired"]
  /\ IF cleanupCloses(c)
     THEN /\ proc' = [proc EXCEPT ![c] = "closed"]
          /\ sessionCache' = cacheDelete(sessionCache, sessionId[c])
     ELSE UNCHANGED <<proc, sessionCache>>
  /\ UNCHANGED <<pc, otpType, browser, launchOp, attempt, err, sessionId, resp,
                 log, pageTitle, uuidCount, event, wt, rt>>

\* ------------------------------------------------- sendOTP: catch block
\* `await browser.close()` resolves; the error is rethrown
CloseDone(c) ==
  /\ MacrotaskTurn
  /\ pc[c] = "closing"
  /\ proc' = [proc EXCEPT ![c] = "closed"]
  /\ Goto(c, "thrown")
  /\ UNCHANGED <<otpType, browser, launchOp, attempt, err, sessionId, sessionCache,
                 cleanupTimer, resp, log, pageTitle, uuidCount, event, wt, rt>>

\* `await browser.close()` rejects: a warning is logged, the error is rethrown
CloseFail(c) ==
  /\ MacrotaskTurn
  /\ pc[c] = "closing"
  /\ Goto(c, "thrown")
  /\ UNCHANGED <<otpType, browser, proc, launchOp, attempt, err, sessionId,
                 sessionCache, cleanupTimer, resp, log, pageTitle, uuidCount, event, wt, rt>>

\* ----------------------------------------------------------- environment
\* the browser process dies or its connection drops
BrowserDisconnect(c) ==
  /\ MacrotaskTurn
  /\ proc[c] = "open"
  /\ proc' = [proc EXCEPT ![c] = "disconnected"]
  /\ UNCHANGED <<pc, otpType, browser, launchOp, attempt, err, sessionId, sessionCache,
                 cleanupTimer, resp, log, pageTitle, uuidCount, event, wt, rt>>

Next ==
  \E c \in Calls :
    \/ Handler(c)
    \/ HandlerReturn(c)
    \/ HandlerCatch(c)
    \/ LaunchDone(c)
    \/ LaunchFail(c)
    \/ WithTimeoutFire(c)
    \/ WithTimeoutReject(c)
    \/ NewPageDone(c)
    \/ StealthDone(c)
    \/ SetUserAgentDone(c)
    \/ NavigationDone(c)
    \/ SettleDone(c)
    \/ TitleRead(c)
    \/ LoginWaitFound(c)
    \/ LoginWaitFailed(c)
    \/ LoginBackoffDone(c)
    \/ StepDone(c)
    \/ StepFail(c)
    \/ SendOtpDone(c)
    \/ CleanupFire(c)
    \/ CloseDone(c)
    \/ CloseFail(c)
    \/ BrowserDisconnect(c)

Spec == Init /\ [][Next]_vars

\* ------------------------------------------------ _withTimeout on its own
\* One call _withTimeout(promise, timeoutMs, operationName): the promise and
\* the timer settle in either order, each at most once.
Pending == [state |-> "pending", value |-> NoError]
Fulfilled == [state |-> "fulfilled", value |-> <<"value">>]
Rejected(message) == [state |-> "rejected", value |-> message]

WtInit ==
  \E ms \in {TimeoutMs[k] : k \in DOMAIN TimeoutMs},
     name \in {OperationName[k] : k \in DOMAIN OperationName} :
    wt = [phase |-> "racing", timeoutMs |-> ms, operationName |-> name,
          promise |-> "pending", timer |-> "armed",
          result |-> Pending, settled |-> 0, events |-> <<>>]

\* the returned promise after one more settlement attempt
WtSettle(outcome, ev) ==
  wt' = [wt EXCEPT !.result = raceSettle(wt.result, outcome),
                   !.settled = IF raceSettle(wt.result, outcome) # wt.result
                               THEN @ + 1 ELSE @,
                   !.events = Append(@, ev),
                   !.promise = IF ev = "timer" THEN @ ELSE ev,
                   !.timer = IF ev = "timer" THEN "fired" ELSE @]

\* the wrapped promise resolves
WtResolve ==
  /\ wt.phase = "racing" /\ wt.promise = "pending"
  /\ WtSettle(Fulfilled, "resolved")
  /\ UNCHANGED <<flowVars, rt>>

\* the wrapped promise rejects
WtReject ==
  /\ wt.phase = "racing" /\ wt.promise = "pending"
  /\ WtSettle(Rejected(OperationErrorMessage), "rejected")
  /\ UNCHANGED <<flowVars, rt>>

\* the setTimeout callback runs
WtTimer ==
  /\ wt.phase = "racing" /\ wt.timer = "armed"
  /\ WtSettle(Rejected(TimeoutMessage(wt.operationName, wt.timeoutMs)), "timer")
  /\ UNCHANGED <<flowVars, rt>>

WtNext == WtResolve \/ WtReject \/ WtTimer

InitWithTimeout == FlowInit /\ WtInit /\ rt = [phase |-> "off"]

SpecWithTimeout == InitWithTimeout /\ [][WtNext]_vars

\* ------------------------------------- _waitForSelectorWithRetry on its own
\* One call with options {timeout, retries, retryDelay}; each attempt of
\* pageOrFrame.waitForSelector finds the element or rejects.
RtOptions == [timeout : {60000, 30000}, retries : 0..MaxRetries, retryDelay : {1000, 2000}]

RtInit ==
  \E o \in RtOptions :
    rt = [phase |-> "waiting", options |-> o, attempt |-> 0, lastError |-> NoError,
          tries |-> <<>>, pauses |-> <<>>, element |-> 0, thrown |-> NoError]

\* the errors pageOrFrame.waitForSelector can reject with
RtErrors(k) ==
  {SelectorTimeoutMessage(attemptTimeout(rt.options.timeout, rt.options.retries, k)),
   OperationErrorMessage}

\* the attempt in progress finds the element: return it
RtFound ==
  /\ rt.phase = "waiting"
  /\ rt' = [rt EXCEPT !.phase = "returned",
                      !.element = rt.attempt + 1,
                      !.tries = Append(@, [timeout |-> attemptTimeout(rt.options.timeout,
                                                        rt.options.retries, rt.attempt),
                                           error |-> NoError])]
  /\ UNCHANGED <<flowVars, wt>>

\* the attempt in progress fails: remember the error, then sleep or give up
RtFailed ==
  /\ rt.phase = "waiting"
  /\ \E e \in RtErrors(rt.attempt) :
       rt' = [rt EXCEPT
                !.lastError = e,
                !.tries = Append(@, [timeout |-> attemptTimeout(rt.options.timeout,
                                                  rt.options.retries, rt.attempt),
                                     error |-> e]),
                !.phase = IF retriesLeft(rt.attempt, rt.options.retries)
                          THEN "sleeping" ELSE "thrown",
                !.pauses = IF retriesLeft(rt.attempt, rt.options.retries)
                           THEN Append(@, backoffDelay(rt.options.retryDelay, rt.attempt))
                           ELSE @,
                !.thrown = IF retriesLeft(rt.attempt, rt.options.retries) THEN @ ELSE e]
  /\ UNCHANGED <<flowVars, wt>>

\* the backoff pause ends: attempt++
RtWake ==
  /\ rt.phase = "sleeping"
  /\ rt' = [rt EXCEPT !.phase = "waiting", !.attempt = @ + 1]
  /\ UNCHANGED <<flowVars, wt>>

RtNext == RtFound \/ RtFailed \/ RtWake

InitRetry == FlowInit /\ RtInit /\ wt = [phase |-> "off"]

SpecRetry == InitRetry /\ [][RtNext]_vars

\* ------------------------------------------------------------ fairness
\* Node runs a due timer callback and a queued continuation; puppeteer's
\* waitForSelector settles by its own timeout, and puppeteer rejects every
\* pending operation of a browser whose connection has dropped.  Nothing
\* makes any other operation of a connected browser settle: every step after
\* the Login click except the two selector waits in the frame ends with a
\* bare await (click, page.$, contentFrame, boundingBox, mouse.click, type).
Fairness ==
  \A c \in Calls :
    /\ WF_vars(HandlerReturn(c))
    /\ WF_vars(HandlerCatch(c))
    /\ WF_vars(WithTimeoutFire(c))
    /\ WF_vars(SettleDone(c))
    /\ WF_vars(LoginWaitFound(c) \/ LoginWaitFailed(c))
    /\ WF_vars(LoginBackoffDone(c))
    /\ WF_vars(CleanupFire(c))
    /\ WF_vars(pc[c] = "emailPause" /\ StepDone(c))
    /\ WF_vars(pc[c] = "frameLogin" /\ (StepDone(c) \/ StepFail(c)))
    /\ WF_vars(proc[c] = "disconnected" /\
                 (WithTimeoutReject(c) \/ StealthDone(c) \/ TitleRead(c)
                    \/ StepFail(c) \/ CloseFail(c)))

FairSpec == Spec /\ Fairness

\* the same, granting in addition that browser.close() in the catch block
\* settles, so that only the steps of the flow itself can stay pending
CloseSettles == \A c \in Calls : WF_vars(CloseDone(c) \/ CloseFail(c))

StepFairSpec == Spec /\ Fairness /\ CloseSettles

\* =================================================================== claims
IsPrefix(s, t) == Len(s) <= Len(t) /\ \A i \in 1..Len(s) : s[i] = t[i]

\* sendOTP of call c has rejected with err[c]
Rejected_sendOTP(c) == err[c] # NoError /\ pc[c] \in {"thrown", "responded"}

\* C1: the steps of sendOTP complete in the fixed order navigate, block-page
\* check, Login click, iframe switch, identifier typed, Send-OTP click, cache:
\* the steps completed so far are always a prefix of that order, and a session
\* id exists, is cached or is returned only when all of them have completed.
C1_StepOrder ==
  \A c \in Calls :
    /\ IsPrefix(log[c], FlowOrder)
    /\ (sessionId[c] # 0 \/ cleanupTimer[c] # "none" \/ resp[c].sessionId # 0
        \/ \E k \in DOMAIN sessionCache : sessionCache[k].browser = c)
         => log[c] = FlowOrder

C1_Witness ==
  \E c \in Calls : pc[c] = "responded" /\ resp[c].sessionId # 0 /\ log[c] = FlowOrder

\* C2: once the cleanup timer of a session has fired, the session's key is
\* no longer in sessionCache.
C2_ExpiredSessionGone ==
  \A c \in Calls : cleanupTimer[c] = "fired" => sessionId[c] \notin DOMAIN sessionCache

\* C3: every entry of sessionCache refers to a browser that is still open.
C3_CachedBrowserOpen ==
  \A k \in DOMAIN sessionCache : proc[sessionCache[k].browser] = "open"

\* the three kinds of failure the specification names
IsTimedOut(m) ==
  Includes(m, "timed out after") \/ Includes(m, "Waiting for selector failed:")
IsSelectorNotFound(m) == Includes(m, "Failed to find Login button after navigation.")
IsAccessDenied(m) == Includes(m, "detected automated browser")

C5_AlwaysSettles ==
  \A c \in Calls : (pc[c] = "launch") ~> (pc[c] \in {"returned", "thrown", "responded"})

\* C6: when sendOTP has resolved, the handler answers 200, success, 'OTP sent
\* successfully' and the sessionId, and at that moment the sessionId is a key
\* of sessionCache that no other call has been given.
C6_SuccessAnswer ==
  [][\A c \in Calls :
       (pc[c] = "returned" /\ pc'[c] = "responded") =>
         /\ resp'[c].statusCode = 200
         /\ resp'[c].success
         /\ resp'[c].message = "OTP sent successfully"
         /\ resp'[c].sessionId = sessionId[c]
         /\ resp'[c].sessionId \in DOMAIN sessionCache'
         /\ sessionCache'[resp'[c].sessionId].browser = c
         /\ \A d \in Calls \ {c} :
              sessionId[d] # resp'[c].sessionId /\ resp[d].sessionId # resp'[c].sessionId
    ]_vars

C6_Witness ==
  \E c, d \in Calls :
    /\ c # d
    /\ resp[c].statusCode = 200 /\ resp[c].success
    /\ resp[d].statusCode = 200 /\ resp[d].success

\* C7: the promise returned by _withTimeout settles at most once, with the
\* outcome of whichever of the two events (the wrapped promise settling, the
\* timer firing) came first; the later event leaves it unchanged.
C7_FirstEventWins ==
  wt.phase = "racing" =>
    /\ wt.settled <= 1
    /\ (wt.events = <<>>) <=> (wt.result.state = "pending")
    /\ wt.events # <<>> =>
         /\ wt.settled = 1
         /\ Head(wt.events) = "resolved" => wt.result = [state |-> "fulfilled", value |-> <<"value">>]
         /\ Head(wt.events) = "rejected" =>
              wt.result = [state |-> "rejected", value |-> OperationErrorMessage]
         /\ Head(wt.events) = "timer" =>
              /\ wt.result.state = "rejected"
              /\ wt.result.value = <<wt.operationName, "timed out after",
                                     ToString(wt.timeoutMs), "ms">>

C7_Witness ==
  /\ wt.phase = "racing"
  /\ Len(wt.events) = 2
  /\ wt.events[1] = "timer" /\ wt.events[2] = "resolved"
  /\ wt.result.state = "rejected"

\* C8: when sendOTP has rejected, no browser launched by that call is open.
C8_NoBrowserLeft ==
  \A c \in Calls : (pc[c] = "responded" /\ err[c] # NoError) => proc[c] # "open"

\* C9: the pauses of _waitForSelectorWithRetry double: the first is
\* retryDelay, each next one twice the one before; a failed attempt is
\* followed by a pause unless it was the last (attempt = retries); with the
\* Login button's options the pauses are 2000 then 4000.
C9_Backoff ==
  rt.phase # "off" =>
    /\ \A i \in 1..Len(rt.pauses) :
         rt.pauses[i] = IF i = 1 THEN rt.options.retryDelay ELSE 2 * rt.pauses[i - 1]
    /\ Len(rt.pauses) =
         Cardinality({i \in 1..Len(rt.tries) :
                        rt.tries[i].error # NoError /\ i # rt.options.retries + 1})
    /\ rt.phase = "sleeping" => rt.attempt < rt.options.retries
    /\ rt.phase = "thrown" => Len(rt.pauses) = rt.options.retries
    /\ (rt.options.retryDelay = 2000 /\ rt.options.retries = 2) =>
         IsPrefix(rt.pauses, <<2000, 4000>>)

C9_Witness ==
  /\ rt.phase = "thrown"
  /\ rt.options.retryDelay = 2000 /\ rt.options.retries = 2 /\ rt.options.timeout = 60000
  /\ rt.pauses = <<2000, 4000>>

\* C10: _waitForSelectorWithRetry makes at most retries + 1 attempts, the
\* first with the full timeout and each later one with timeout / (retries + 1);
\* it returns the element of the first attempt that succeeds, which is the last
\* attempt made; it throws only after retries + 1 failed attempts, and then the
\* error of the last attempt.
C10_Attempts ==
  rt.phase # "off" =>
    /\ Len(rt.tries) <= rt.options.retries + 1
    /\ \A i \in 1..Len(rt.tries) :
         IF i = 1 THEN rt.tries[i].timeout = rt.options.timeout
         ELSE rt.tries[i].timeout * (rt.options.retries + 1) = rt.options.timeout
    /\ \A i \in 1..(Len(rt.tries) - 1) : rt.tries[i].error # NoError
    /\ rt.phase = "returned" =>
         /\ rt.tries[Len(rt.tries)].error = NoError
         /\ rt.element = Len(rt.tries)
    /\ rt.phase = "thrown" =>
         /\ Len(rt.tries) = rt.options.retries + 1
         /\ \A i \in 1..Len(rt.tries) : rt.tries[i].error # NoError
         /\ rt.thrown = rt.tries[Len(rt.tries)].error
    /\ rt.phase \in {"waiting", "sleeping"} => rt.element = 0 /\ rt.thrown = NoError

C10_Witness ==
  /\ rt.phase = "thrown"
  /\ Len(rt.tries) = 3
  /\ rt.tries[1].error # rt.tries[3].error

\* a character equals a lower-case letter of the needle up to letter case
SameLetter(ch, low) ==
  ch = low \/ \E i \in 1..26 : LowerCase[i] = low /\ UpperCase[i] = ch

\* the title contains 'access denied' in some letter case
SaysAccessDenied(title) ==
  \E k \in 0..(Len(title) - 13) :
    \A i \in 1..13 : SameLetter(title[k + i], NeedleAccessDenied[i])

\* no session of call c exists
NoSession(c) ==
  /\ sessionId[c] = 0
  /\ cleanupTimer[c] = "none"
  /\ \A k \in DOMAIN sessionCache : sessionCache[k].browser # c

\* what C11 says of a call whose title has been read, the closing aside
BlockPageOutcome(c) ==
  /\ (pageTitle[c] # <<>> /\ SaysAccessDenied(pageTitle[c])) =>
       /\ err[c] = AccessDeniedMessage
       /\ Includes(err[c], "detected automated browser")
       /\ pc[c] \in {"closing", "thrown", "responded"}
       /\ log[c] = <<"navigate">>
       /\ NoSession(c)
  /\ (pageTitle[c] # <<>> /\ ~SaysAccessDenied(pageTitle[c])) =>
       /\ err[c] # AccessDeniedMessage
       /\ IsPrefix(<<"navigate", "blockCheck">>, log[c])
  /\ err[c] = AccessDeniedMessage => pageTitle[c] # <<>> /\ SaysAccessDenied(pageTitle[c])

C12_FailureLeavesCache ==
  [][\A c \in Calls :
       /\ (err'[c] # NoError) => NoSession(c)'
       /\ (pc'[c] \in {"closing", "thrown"} /\ pc'[c] # pc[c]) =>
            /\ sessionCache' = sessionCache
            /\ cleanupTimer' = cleanupTimer
       /\ (pc[c] = "thrown" /\ pc'[c] = "responded") =>
            /\ sessionCache' = sessionCache
            /\ cleanupTimer' = cleanupTimer
            /\ resp'[c].sessionId = 0
    ]_vars

C12_Witness ==
  \E c, d \in Calls :
    /\ pc[c] = "responded" /\ err[c] = SelectorTimeoutMessage(30000)
    /\ log[c] = <<"navigate", "blockCheck", "clickLogin", "switchIframe", "typeIdentifier">>
    /\ sessionId[d] # 0
    /\ DOMAIN sessionCache = {sessionId[d]}

\* C13: each successful call adds exactly one entry, under an id of its own,
\* holding its own browser, and changes no other entry; the cleanup timer of
\* a session changes no browser and no entry but its own; every entry is
\* filed under the id of the call whose browser it holds.
C13_SessionsIsolated ==
  [][\A c \in Calls :
       /\ (pc[c] # "returned" /\ pc'[c] = "returned") =>
            /\ sessionId'[c] \notin DOMAIN sessionCache
            /\ \A d \in Calls \ {c} : sessionId[d] # sessionId'[c]
            /\ DOMAIN sessionCache' = DOMAIN sessionCache \cup {sessionId'[c]}
            /\ sessionCache'[sessionId'[c]].browser = c
            /\ \A k \in DOMAIN sessionCache : sessionCache'[k] = sessionCache[k]
            /\ \A d \in Calls \ {c} : proc'[d] = proc[d] /\ cleanupTimer'[d] = cleanupTimer[d]
       /\ (cleanupTimer[c] = "armed" /\ cleanupTimer'[c] = "fired") =>
            /\ \A d \in Calls \ {c} : proc'[d] = proc[d] /\ cleanupTimer'[d] = cleanupTimer[d]
            /\ DOMAIN sessionCache \ {sessionId[c]} \subseteq DOMAIN sessionCache'
            /\ DOMAIN sessionCache' \subseteq DOMAIN sessionCache
            /\ \A k \in DOMAIN sessionCache' : sessionCache'[k] = sessionCache[k]
       /\ \A k \in DOMAIN sessionCache' :
            sessionCache'[k].browser = c => k = sessionId'[c]
    ]_vars

C13_Witness ==
  \E c, d \in Calls :
    /\ c # d
    /\ cleanupTimer[c] = "fired" /\ proc[c] = "closed" /\ sessionId[c] # 0
    /\ cleanupTimer[d] = "armed" /\ proc[d] = "open"
    /\ DOMAIN sessionCache = {sessionId[d]}
    /\ sessionCache[sessionId[d]].browser = d

\* the failure of call c is the access-denied failure
AccessDeniedFailure(c) == pageTitle[c] # <<>> /\ SaysAccessDenied(pageTitle[c])

IsPreflight(c) == event[c].httpMethod = "OPTIONS"

\* the request of call c had a method other than POST and OPTIONS
IsWrongMethod(c) == event[c] # NoEvent /\ event[c].httpMethod \notin {"POST", "OPTIONS"}

\* the request of call c was a POST whose parsed body has no identifier
\* (absent and empty are both the empty string)
IsNoIdentifier(c) ==
  /\ event[c].httpMethod = "POST"
  /\ event[c].body.json
  /\ event[c].body.identifier = ""

\* the answer the handler owes to a request it turns away
RejectionAnswer(c) ==
  IF IsPreflight(c) THEN Answer(200, FALSE, "", NoError, 0)
  ELSE IF IsWrongMethod(c) THEN Answer(405, FALSE, "", <<"Method not allowed. Use POST.">>, 0)
  ELSE Answer(400, FALSE, "", <<"identifier is required">>, 0)

====
